---- MODULE Spec2Model ----
(***************************************************************************)
(* Control core of the Smart-Toaster firmware (src/unnamed/part_000).      *)
(*                                                                         *)
(* One iteration of main()'s while(true) loop is modelled as three steps:  *)
(*   Poll          lines 573-589  sleep, idle-timeout check, update_temp,  *)
(*                                button_update x4                         *)
(*   HandleButtons lines 592-595  the four button handlers, in order       *)
(*   RunCycle      lines 597-607  lcd_maybe_update, process_cycle and the  *)
(*                                countdown, when running                  *)
(* Every C function is an operator from a program-state record to a        *)
(* program-state record; the actions apply them in the order of main().    *)
(*                                                                         *)
(* Units: the clock (absolute_time_t) is in microseconds, the program's own *)
(* int variables (time_target, delta_ms, press_time_ms) in ms as in the     *)
(* code; temperatures are in quarter degrees Celsius (the sensor           *)
(* resolution, raw * 0.25f), so every comparison of the code is exact.     *)
(* An absolute_time_t deadline is kept as the time left until it (0 once   *)
(* it is reached), a last-event time as the time since it (saturating at   *)
(* the interval it is compared with), and nil_time as Nil.                 *)
(* Time passes in the calls that sleep and nowhere else: sleep_ms (the     *)
(* 20 ms of every iteration and the completion pulses) and sleep_us (every *)
(* byte sent to the display sleeps 6 x 600 us in lcd_toggle_enable).       *)
(* Interrupts stay enabled throughout, so a pending alarm that falls due   *)
(* while the program sleeps runs beep_callback then.                       *)
(***************************************************************************)
EXTENDS Integers, FiniteSets, Sequences

VARIABLES
    pc,                   \* position in the loop body: "poll", "handle", "cycle"
    mode,                 \* main: uint8_t mode (0 Toast, 1 Bake, 2 Passthru)
    setting_option,       \* main: uint8_t setting_option
    running,              \* main: bool running
    screen_timeout,       \* main: absolute_time_t screen_timeout (us left, or Nil)
    toast_time, bake_time, bake_temp,
    heating_stage, prev_heating_stage,
    time_target, temp_target,
    current_temp,         \* quarter degrees Celsius
    temp_age,             \* us since last_temp_check (Nil: never sampled)
    relay,                \* PIN_RELAY output level
    buzzer,               \* PIN_BUZZER output level
    beeping,              \* static bool beeping
    alarm,                \* pending one-shot alarm: us left, or Nil
    backlightEnabled,
    last_display_seconds,
    lcd_age,              \* us since last_lcd_update
    btn,                  \* the four ButtonState structs
    delta_ms,             \* main line 576: the measured sleep
    cycle_delta_ms,       \* main line 604: loop_start to after process_cycle
    loop_us,              \* us since loop_start (line 573)
    draw_calls,           \* draw_lcd() calls made so far in this tick
    drawn,                \* what the last draw_lcd() call put on the display
    sync_pulses,          \* synchronous buzzer pulses played so far in this tick
    pulse_ms,             \* length of the last alarm-timed pulse begun in this tick, or Nil
    \* ---- beep() at statement granularity (SpecBeep only) ----
    beep_call,            \* the beep() call in progress: position and arguments
    alarm_pool,           \* remaining us of every pending alarm of the alarm pool
    \* ---- observers (not program state) ----
    lcd_off_calls,        \* lcd_off() calls of the current idle period (saturates at 2)
    idle_us,              \* us since the last qualifying input or cycle end (saturates)
    toast_goal,           \* time_target loaded by the last Toast start, else Nil
    toast_elapsed,        \* sum of cycle_delta_ms over the ticks of that Toast cycle
    adjust_presses,       \* Up/Down presses made so far by the environment
    ticks                 \* loop iterations counted by the environment, up to its horizon

vars == <<pc, mode, setting_option, running, screen_timeout, toast_time, bake_time,
          bake_temp, heating_stage, prev_heating_stage, time_target, temp_target,
          current_temp, temp_age, relay, buzzer, beeping, alarm, backlightEnabled,
          last_display_seconds, lcd_age, btn, delta_ms, cycle_delta_ms, loop_us,
          draw_calls, drawn, sync_pulses, pulse_ms, beep_call, alarm_pool,
          lcd_off_calls, idle_us, toast_goal, toast_elapsed, adjust_presses, ticks>>

(***************************************************************************)
(* Program constants                                                       *)
(***************************************************************************)
SCREEN_TIMEOUT == 30000
TOAST_TIME_INC == 15
BAKE_TIME_INC == 30
BAKE_TEMP_INC == 25
LOOP_DELAY_MS == 20
LONG_PRESS_MS == 200
LCD_UPDATE_MS == 200
MIN_TEMP_REFRESH_US == 220000
ACTION_BEEP_LENGTH == 50
START_BEEP_LENGTH == 200
COMPLETE_BEEP_LENGTH == 500
READY_BEEP_LENGTH == 500
TOAST_TIME_MAX == 600
TOAST_TIME_MIN == 30
BAKE_TIME_MAX == 1200
BAKE_TIME_MIN == 30
BAKE_TEMP_MAX == 500
BAKE_TEMP_MIN == 50
PASSTHRU_TARGET == 260
NUM_MODES == 3
\* lcd_toggle_enable: const uint32_t DELAY_US
DELAY_US == 600
MAX_CHARS == 16
\* TEMP_HYSTERESIS 2.5 degrees, in quarter degrees
TEMP_HYSTERESIS_Q == 10
\* quarter degrees per degree: current_temp = raw * 0.25f
QUARTERS == 4
\* nil_time / the initial last_temp_check
Nil == -1
\* static float current_temp = -1, in quarter degrees
INITIAL_TEMP_Q == -4

Buttons == {"mode", "up", "down", "start"}

(***************************************************************************)
(* Bounds of the exploration                                               *)
(***************************************************************************)
\* a button stays pressed for at most this many consecutive ticks
MaxHoldTicks == 2
\* Spec follows the loop for this many iterations after power-up
MaxCycleTicks == 8
\* SpecFine follows the loop for this many iterations after power-up
MaxFineTicks == 15
\* SpecHold follows the loop for this many iterations after power-up
MaxEditTicks == 13
\* SpecLong follows the loop for this many iterations after power-up
MaxLongTicks == 15
\* a patient user presses a button within this many iterations of power-up
\* (or of the display going dark), or not at all
ActTicks == 3
\* a late press falls within this many ms of the end of the countdown
LastMs == 100
\* in SpecHold, Up stays pressed for at most this many consecutive ticks
MaxLongHoldTicks == 10
\* in SpecLong, Up may stay pressed for this many ticks more than that
MaxOverHoldTicks == 2
\* at most this many buttons are pressed in the same tick
MaxPressed == 2
\* the environment presses Up or Down at most this many times
MaxAdjust == 2
\* the same, in the specifications that operate all four buttons
MaxAdjustOfFour == 1

MIN(a, b) == IF a < b THEN a ELSE b
MAX(a, b) == IF a > b THEN a ELSE b

(***************************************************************************)
(* The program state as one record, so that the C functions compose.       *)
(***************************************************************************)
St == [mode |-> mode, setting_option |-> setting_option, running |-> running,
       screen_timeout |-> screen_timeout, toast_time |-> toast_time,
       bake_time |-> bake_time, bake_temp |-> bake_temp,
       heating_stage |-> heating_stage, prev_heating_stage |-> prev_heating_stage,
       time_target |-> time_target, temp_target |-> temp_target,
       current_temp |-> current_temp, temp_age |-> temp_age, relay |-> relay,
       buzzer |-> buzzer, beeping |-> beeping, alarm |-> alarm,
       backlightEnabled |-> backlightEnabled,
       last_display_seconds |-> last_display_seconds, lcd_age |-> lcd_age,
       btn |-> btn, loop_us |-> loop_us,
       draw_calls |-> draw_calls, drawn |-> drawn, sync_pulses |-> sync_pulses,
       pulse_ms |-> pulse_ms]

Commit(s) ==
    /\ mode' = s.mode
    /\ setting_option' = s.setting_option
    /\ running' = s.running
    /\ screen_timeout' = s.screen_timeout
    /\ toast_time' = s.toast_time
    /\ bake_time' = s.bake_time
    /\ bake_temp' = s.bake_temp
    /\ heating_stage' = s.heating_stage
    /\ prev_heating_stage' = s.prev_heating_stage
    /\ time_target' = s.time_target
    /\ temp_target' = s.temp_target
    /\ current_temp' = s.current_temp
    /\ temp_age' = s.temp_age
    /\ relay' = s.relay
    /\ buzzer' = s.buzzer
    /\ beeping' = s.beeping
    /\ alarm' = s.alarm
    /\ backlightEnabled' = s.backlightEnabled
    /\ last_display_seconds' = s.last_display_seconds
    /\ lcd_age' = s.lcd_age
    /\ btn' = s.btn
    /\ loop_us' = s.loop_us
    /\ draw_calls' = s.draw_calls
    /\ drawn' = s.drawn
    /\ sync_pulses' = s.sync_pulses
    /\ pulse_ms' = s.pulse_ms

(***************************************************************************)
(* Time                                                                    *)
(***************************************************************************)
\* is_nil_time
is_nil_time(t) == t = Nil

\* make_timeout_time_ms(SCREEN_TIMEOUT): a deadline SCREEN_TIMEOUT ms from now
make_timeout_time_ms(ms) == ms * 1000

\* (int32_t)((delta_us + 500) / 1000), lines 576 and 604
RoundMs(us) == (us + 500) \div 1000

\* beep_callback: the one-shot alarm's handler, run in interrupt context
beep_callback(s) == [s EXCEPT !.buzzer = FALSE, !.beeping = FALSE, !.alarm = Nil]

\* d us of wall-clock time pass: deadlines come closer, ages grow, and a
\* pending alarm that falls due runs beep_callback
Elapse(s, d) ==
    LET t == [s EXCEPT
                !.screen_timeout = IF is_nil_time(@) THEN Nil ELSE MAX(@ - d, 0),
                !.temp_age = IF is_nil_time(@) THEN Nil
                             ELSE MIN(@ + d, MIN_TEMP_REFRESH_US),
                !.lcd_age = MIN(@ + d, LCD_UPDATE_MS * 1000)]
    IN  IF is_nil_time(s.alarm) THEN t
        ELSE IF s.alarm <= d THEN beep_callback(t)
        ELSE [t EXCEPT !.alarm = @ - d]

\* the alarms of the pool that fall due within d us
DueAlarms(pool, d) == {i \in 1..Len(pool) : pool[i] <= d}

\* d us pass for the alarm pool: due alarms fire and leave the pool (one-shot:
\* the callback cancels its own alarm), the others come closer
PoolElapse(pool, d) ==
    LET IsPending(x) == x > d
        left == SelectSeq(pool, IsPending)
    IN  [i \in 1..Len(left) |-> left[i] - d]

\* the alarm pool that holds the alarm of the slot `alarm`, if there is one
PoolOf(a) == IF is_nil_time(a) THEN << >> ELSE <<a>>

\* the alarm added last of those pending: the one the slot `alarm` stands for
LatestAlarm(pool) == IF pool = << >> THEN Nil ELSE pool[Len(pool)]

\* sleep_us: the time passes, and it counts into this tick
sleep_us(s, us) == [Elapse(s, us) EXCEPT !.loop_us = @ + us]

sleep_ms(s, ms) == sleep_us(s, ms * 1000)

(***************************************************************************)
(* Temperature sensor                                                      *)
(***************************************************************************)
\* update_temp, were the sensor read in every tick
update_temp_EveryTick(s, sample) ==
    [s EXCEPT !.temp_age = 0, !.current_temp = sample]

\* update_temp, with the value the sensor would return
update_temp(s, sample) ==
    IF ~is_nil_time(s.temp_age) /\ s.temp_age < MIN_TEMP_REFRESH_US
    THEN s
    ELSE [s EXCEPT !.temp_age = 0, !.current_temp = sample]

(***************************************************************************)
(* Buttons                                                                 *)
(***************************************************************************)
button_init == [prev |-> FALSE, cur |-> FALSE, stale |-> FALSE, press_time_ms |-> 0]

\* button_update, with the (active-low, already inverted) pin level
\* button_update, were the hold time kept across a release
button_update_NoReset(b, pressed, delta) ==
    [prev |-> b.cur, cur |-> pressed, stale |-> b.stale /\ b.cur,
     press_time_ms |-> IF pressed THEN b.press_time_ms + delta ELSE b.press_time_ms]

\* button_update, were the stale flag to outlive the release
button_update_StaleKept(b, pressed, delta) ==
    [prev |-> b.cur, cur |-> pressed, stale |-> b.stale,
     press_time_ms |-> IF pressed THEN b.press_time_ms + delta ELSE 0]

button_update(b, pressed, delta) ==
    [prev |-> b.cur,
     cur |-> pressed,
     stale |-> b.stale /\ b.cur,
     press_time_ms |-> IF pressed THEN b.press_time_ms + delta ELSE 0]

(***************************************************************************)
(* Display                                                                 *)
(***************************************************************************)
\* lcd_toggle_enable: three sleep_us(DELAY_US) around the two I2C writes
lcd_toggle_enable(s) == sleep_us(sleep_us(sleep_us(s, DELAY_US), DELAY_US), DELAY_US)

\* lcd_send_byte: the high and the low nibble, each latched by a toggle
lcd_send_byte(s) == lcd_toggle_enable(lcd_toggle_enable(s))

lcd_set_cursor(s) == lcd_send_byte(s)

\* lcd_string of a string of len characters: len calls of lcd_send_byte, that
\* is 6 * len sleeps of DELAY_US (the time of consecutive sleeps adds up)
lcd_string(s, len) == sleep_us(s, len * 6 * DELAY_US)

lcd_off(s) == lcd_send_byte([s EXCEPT !.backlightEnabled = FALSE])

lcd_on(s) == lcd_send_byte([s EXCEPT !.backlightEnabled = TRUE])

\* (int)roundf((float)time_target / 1000.0f): to nearest, halves away from zero
DisplaySeconds(ms) ==
    IF ms >= 0 THEN (ms + 500) \div 1000 ELSE -((500 - ms) \div 1000)

\* what draw_lcd(mode, setting_option, running) renders from the state: the
\* idle screen shows the mode and the setting being edited, the running screen
\* the mode and, for Bake, the heating stage (the remaining time it prints is
\* tracked by last_display_seconds)
Screen(s) ==
    IF ~s.running
    THEN [running |-> FALSE, mode |-> s.mode,
          detail |-> IF s.mode = 0 THEN s.toast_time
                     ELSE IF s.mode = 1
                     THEN (IF s.setting_option = 0 THEN s.bake_temp ELSE s.bake_time)
                     ELSE Nil]
    ELSE [running |-> TRUE, mode |-> s.mode,
          detail |-> IF s.mode = 1 THEN s.heating_stage ELSE Nil]

\* draw_lcd, were the display written in no time
draw_lcd_Instant(s) ==
    [s EXCEPT !.drawn = Screen(s), !.draw_calls = @ + 1]

\* draw_lcd: both lines of the display are written in full. Every string
\* is MAX_CHARS long (snprintf cuts the longer ones at 16); the running Bake
\* screen writes two of them to line 0, the stage and " Preheating...  "
draw_lcd(s) ==
    LET line0 == IF s.running /\ s.mode = 1 THEN 2 * MAX_CHARS ELSE MAX_CHARS
        s1 == lcd_string(lcd_set_cursor(s), line0)
        s2 == lcd_string(lcd_set_cursor(s1), MAX_CHARS)
    IN  [s2 EXCEPT !.drawn = Screen(s), !.draw_calls = @ + 1]

lcd_force_update(s) ==
    [draw_lcd(s) EXCEPT
              !.lcd_age = 0,
              !.last_display_seconds =
                  IF s.running THEN DisplaySeconds(s.time_target) ELSE -1]

\* lcd_maybe_update, were the display redrawn only when the seconds change
lcd_maybe_update_NoInterval(s) ==
    LET current_display_seconds ==
            IF s.running THEN DisplaySeconds(s.time_target) ELSE -1
    IN  IF current_display_seconds # s.last_display_seconds
        THEN lcd_force_update(s)
        ELSE s

lcd_maybe_update(s) ==
    LET current_display_seconds ==
            IF s.running THEN DisplaySeconds(s.time_target) ELSE -1
    IN  IF current_display_seconds # s.last_display_seconds
           \/ s.lcd_age \div 1000 >= LCD_UPDATE_MS
        THEN lcd_force_update(s)
        ELSE s

(***************************************************************************)
(* Buzzer                                                                  *)
(***************************************************************************)
\* beep, were a request made during a pulse to restart the pulse
beep_Restarts(s, ms, synchronus) ==
    IF synchronus
    THEN [sleep_ms([s EXCEPT !.buzzer = TRUE], ms) EXCEPT
              !.buzzer = FALSE, !.sync_pulses = @ + 1]
    ELSE [s EXCEPT !.buzzer = TRUE, !.beeping = TRUE, !.alarm = ms * 1000,
                   !.pulse_ms = ms]

\* beep(ms, synchronus)
beep(s, ms, synchronus) ==
    IF s.beeping THEN s
    ELSE IF synchronus
         THEN [sleep_ms([s EXCEPT !.buzzer = TRUE], ms) EXCEPT
                   !.buzzer = FALSE, !.sync_pulses = @ + 1]
         ELSE [s EXCEPT !.buzzer = TRUE, !.beeping = TRUE, !.alarm = ms * 1000,
                        !.pulse_ms = ms]

(***************************************************************************)
(* Button handlers                                                         *)
(***************************************************************************)
Pressed(b) == b.cur /\ ~b.prev

Released(b) == ~b.cur /\ b.prev

\* the handlers' common wake path: lcd_on(); *screen_timeout = make_timeout...
WakeScreen(s) ==
    [lcd_on(s) EXCEPT !.screen_timeout = make_timeout_time_ms(SCREEN_TIMEOUT)]

RefreshTimeout(s) ==
    [s EXCEPT !.screen_timeout = make_timeout_time_ms(SCREEN_TIMEOUT)]

\* handle_mode_button, were the mode incremented without wrapping around
handle_mode_button_NoWrap(s) ==
    IF Pressed(s.btn["mode"]) /\ ~s.running
    THEN IF is_nil_time(s.screen_timeout)
         THEN WakeScreen(s)
         ELSE lcd_force_update(
                  beep([RefreshTimeout(s) EXCEPT
                            !.mode = s.mode + 1,
                            !.setting_option = 0],
                       ACTION_BEEP_LENGTH, FALSE))
    ELSE s

\* *mode = ++(*mode) % 3 is taken as the increment followed by the store of
\* the remainder, the order in which the statement is compiled
handle_mode_button(s) ==
    IF Pressed(s.btn["mode"]) /\ ~s.running
    THEN IF is_nil_time(s.screen_timeout)
         THEN WakeScreen(s)
         ELSE lcd_force_update(
                  beep([RefreshTimeout(s) EXCEPT
                            !.mode = (s.mode + 1) % NUM_MODES,
                            !.setting_option = 0],
                       ACTION_BEEP_LENGTH, FALSE))
    ELSE s

\* the switch (mode) of handle_up_button
\* AdjustUp, were the bake temperature not limited to BAKE_TEMP_MAX
AdjustUp_NoCeiling(s) ==
    IF s.mode = 0
    THEN [s EXCEPT !.toast_time = MIN(@ + TOAST_TIME_INC, TOAST_TIME_MAX)]
    ELSE IF s.mode = 1
    THEN IF s.setting_option = 0
         THEN [s EXCEPT !.bake_temp = @ + BAKE_TEMP_INC]
         ELSE [s EXCEPT !.bake_time = MIN(@ + BAKE_TIME_INC, BAKE_TIME_MAX)]
    ELSE s

AdjustUp(s) ==
    IF s.mode = 0
    THEN [s EXCEPT !.toast_time = MIN(@ + TOAST_TIME_INC, TOAST_TIME_MAX)]
    ELSE IF s.mode = 1
    THEN IF s.setting_option = 0
         THEN [s EXCEPT !.bake_temp = MIN(@ + BAKE_TEMP_INC, BAKE_TEMP_MAX)]
         ELSE [s EXCEPT !.bake_time = MIN(@ + BAKE_TIME_INC, BAKE_TIME_MAX)]
    ELSE s

\* the switch (mode) of handle_down_button
AdjustDown(s) ==
    IF s.mode = 0
    THEN [s EXCEPT !.toast_time = MAX(@ - TOAST_TIME_INC, TOAST_TIME_MIN)]
    ELSE IF s.mode = 1
    THEN IF s.setting_option = 0
         THEN [s EXCEPT !.bake_temp = MAX(@ - BAKE_TEMP_INC, BAKE_TEMP_MIN)]
         ELSE [s EXCEPT !.bake_time = MAX(@ - BAKE_TIME_INC, BAKE_TIME_MIN)]
    ELSE s

\* handle_up_button, were the long press taken during a cycle too
\* handle_up_button, were the long press to act in every mode
handle_up_button_LongPressAnyMode(s) ==
    LET b == s.btn["up"] IN
    IF ~b.stale /\ b.press_time_ms >= LONG_PRESS_MS /\ ~s.running
    THEN lcd_force_update([s EXCEPT !.setting_option = (@ + 1) % 2,
                                    !.btn["up"].stale = TRUE])
    ELSE IF Pressed(b)
    THEN IF is_nil_time(s.screen_timeout)
         THEN [WakeScreen(s) EXCEPT !.btn["up"].stale = TRUE]
         ELSE beep(RefreshTimeout(s), ACTION_BEEP_LENGTH, FALSE)
    ELSE IF Released(b) /\ ~b.stale /\ ~s.running
    THEN IF is_nil_time(s.screen_timeout)
         THEN WakeScreen(s)
         ELSE lcd_force_update(AdjustUp(RefreshTimeout(s)))
    ELSE s

handle_up_button_LongPressWhileRunning(s) ==
    LET b == s.btn["up"] IN
    IF s.mode = 1 /\ ~b.stale /\ b.press_time_ms >= LONG_PRESS_MS
    THEN lcd_force_update([s EXCEPT !.setting_option = (@ + 1) % 2,
                                    !.btn["up"].stale = TRUE])
    ELSE IF Pressed(b)
    THEN IF is_nil_time(s.screen_timeout)
         THEN [WakeScreen(s) EXCEPT !.btn["up"].stale = TRUE]
         ELSE beep(RefreshTimeout(s), ACTION_BEEP_LENGTH, FALSE)
    ELSE IF Released(b) /\ ~b.stale /\ ~s.running
    THEN IF is_nil_time(s.screen_timeout)
         THEN WakeScreen(s)
         ELSE lcd_force_update(AdjustUp(RefreshTimeout(s)))
    ELSE s

handle_up_button(s) ==
    LET b == s.btn["up"] IN
    IF s.mode = 1 /\ ~b.stale /\ b.press_time_ms >= LONG_PRESS_MS /\ ~s.running
    THEN \* long press: flip the setting option
         lcd_force_update([s EXCEPT !.setting_option = (@ + 1) % 2,
                                    !.btn["up"].stale = TRUE])
    ELSE IF Pressed(b)
    THEN IF is_nil_time(s.screen_timeout)
         THEN [WakeScreen(s) EXCEPT !.btn["up"].stale = TRUE]
         ELSE beep(RefreshTimeout(s), ACTION_BEEP_LENGTH, FALSE)
    ELSE IF Released(b) /\ ~b.stale /\ ~s.running
    THEN IF is_nil_time(s.screen_timeout)
         THEN WakeScreen(s)
         ELSE lcd_force_update(AdjustUp(RefreshTimeout(s)))
    ELSE s

handle_down_button(s) ==
    IF Pressed(s.btn["down"]) /\ ~s.running
    THEN IF is_nil_time(s.screen_timeout)
         THEN WakeScreen(s)
         ELSE lcd_force_update(
                  beep(AdjustDown(RefreshTimeout(s)), ACTION_BEEP_LENGTH, FALSE))
    ELSE s

\* (int)((float)(bake_temp - 32) * (5.0f / 9.0f)): the float 5.0f/9.0f lies just
\* above 5/9, so the product truncates to the exact quotient for bake_temp >= 32
FahrenheitToCelsius(f) ==
    IF f >= 32 THEN ((f - 32) * 5) \div 9 ELSE -(((32 - f) * 5) \div 9)

\* the branch of handle_start_button that starts a cycle
StartCycle(s) ==
    [s EXCEPT !.screen_timeout = Nil,
              !.temp_target = IF s.mode = 1 THEN FahrenheitToCelsius(s.bake_temp)
                              ELSE PASSTHRU_TARGET,
              !.time_target = (IF s.mode = 0 THEN s.toast_time ELSE s.bake_time) * 1000,
              !.heating_stage = IF s.mode = 0 THEN 2 ELSE 0]

\* StopCycle, were the relay left as the thermostat last commanded it
StopCycle_RelayLeftOn(s) ==
    RefreshTimeout(lcd_force_update(s))

\* the branch of handle_start_button that stops the running cycle
StopCycle(s) ==
    RefreshTimeout(lcd_force_update([s EXCEPT !.relay = FALSE]))

handle_start_button(s) ==
    IF Pressed(s.btn["start"])
    THEN IF ~s.running /\ is_nil_time(s.screen_timeout)
         THEN WakeScreen(s)
         ELSE LET s1 == IF ~s.running THEN RefreshTimeout(s) ELSE s
                  s2 == [s1 EXCEPT !.running = ~s1.running]
                  s3 == beep(s2, IF s2.running THEN START_BEEP_LENGTH
                                 ELSE ACTION_BEEP_LENGTH, FALSE)
              IN  IF s3.running THEN StartCycle(s3) ELSE StopCycle(s3)
    ELSE s

(***************************************************************************)
(* Cook cycle                                                              *)
(***************************************************************************)
\* current_temp <= temp_target - TEMP_HYSTERESIS
AtOrBelowBand(temp, target) == temp <= target * QUARTERS - TEMP_HYSTERESIS_Q

\* current_temp >= temp_target + TEMP_HYSTERESIS
AtOrAboveBand(temp, target) == temp >= target * QUARTERS + TEMP_HYSTERESIS_Q

\* PreheatDone, were the stage to fall back when the oven cools while Ready
PreheatDone_FallsBack(s) ==
    IF s.heating_stage = 0
       /\ s.current_temp >= s.temp_target * QUARTERS - TEMP_HYSTERESIS_Q
    THEN beep([s EXCEPT !.heating_stage = 1], READY_BEEP_LENGTH, FALSE)
    ELSE IF s.heating_stage = 1
            /\ s.current_temp < s.temp_target * QUARTERS - TEMP_HYSTERESIS_Q
         THEN [s EXCEPT !.heating_stage = 0]
         ELSE s

\* process_cycle lines 519-522
PreheatDone(s) ==
    IF s.heating_stage = 0
       /\ s.current_temp >= s.temp_target * QUARTERS - TEMP_HYSTERESIS_Q
    THEN beep([s EXCEPT !.heating_stage = 1], READY_BEEP_LENGTH, FALSE)
    ELSE s

\* ConfirmReady, were it to act on the level of the Mode button (held down)
ConfirmReady_OnLevel(s) ==
    IF s.heating_stage = 1 /\ s.btn["mode"].cur
    THEN [beep(s, ACTION_BEEP_LENGTH, FALSE) EXCEPT !.heating_stage = 2]
    ELSE s

\* process_cycle lines 524-527
ConfirmReady(s) ==
    IF s.heating_stage = 1 /\ Pressed(s.btn["mode"])
    THEN [beep(s, ACTION_BEEP_LENGTH, FALSE) EXCEPT !.heating_stage = 2]
    ELSE s

\* Thermostat, were it a single threshold at the setpoint (no band)
Thermostat_NoBand(s) ==
    IF s.current_temp <= s.temp_target * QUARTERS THEN [s EXCEPT !.relay = TRUE]
    ELSE [s EXCEPT !.relay = FALSE]

\* process_cycle lines 529-533
Thermostat(s) ==
    IF AtOrBelowBand(s.current_temp, s.temp_target) THEN [s EXCEPT !.relay = TRUE]
    ELSE IF AtOrAboveBand(s.current_temp, s.temp_target) THEN [s EXCEPT !.relay = FALSE]
    ELSE s

\* Completion, were the relay left as the thermostat commanded it
Completion_RelayLeftOn(s) ==
    IF s.time_target <= 0
    THEN LET s1 == lcd_force_update([s EXCEPT !.running = FALSE])
             s2 == beep(s1, COMPLETE_BEEP_LENGTH, TRUE)
             s3 == sleep_ms(s2, COMPLETE_BEEP_LENGTH)
             s4 == beep(s3, COMPLETE_BEEP_LENGTH, TRUE)
             s5 == sleep_ms(s4, COMPLETE_BEEP_LENGTH)
             s6 == beep(s5, COMPLETE_BEEP_LENGTH, TRUE)
         IN  RefreshTimeout(s6)
    ELSE s

\* Completion, were running left set
Completion_RunningLeftSet(s) ==
    IF s.time_target <= 0
    THEN LET s1 == lcd_force_update([s EXCEPT !.relay = FALSE])
             s2 == beep(s1, COMPLETE_BEEP_LENGTH, TRUE)
             s3 == sleep_ms(s2, COMPLETE_BEEP_LENGTH)
             s4 == beep(s3, COMPLETE_BEEP_LENGTH, TRUE)
             s5 == sleep_ms(s4, COMPLETE_BEEP_LENGTH)
             s6 == beep(s5, COMPLETE_BEEP_LENGTH, TRUE)
         IN  RefreshTimeout(s6)
    ELSE s

\* process_cycle lines 535-548
Completion(s) ==
    IF s.time_target <= 0
    THEN LET s1 == lcd_force_update([s EXCEPT !.relay = FALSE, !.running = FALSE])
             s2 == beep(s1, COMPLETE_BEEP_LENGTH, TRUE)
             s3 == sleep_ms(s2, COMPLETE_BEEP_LENGTH)
             s4 == beep(s3, COMPLETE_BEEP_LENGTH, TRUE)
             s5 == sleep_ms(s4, COMPLETE_BEEP_LENGTH)
             s6 == beep(s5, COMPLETE_BEEP_LENGTH, TRUE)
         IN  RefreshTimeout(s6)
    ELSE s

process_cycle(s) ==
    Completion(Thermostat(ConfirmReady(PreheatDone(
        [s EXCEPT !.prev_heating_stage = s.heating_stage]))))

(***************************************************************************)
(* main()                                                                  *)
(***************************************************************************)
\* main lines 578-581: the idle deadline has been reached
ScreenTimedOut(s) == ~is_nil_time(s.screen_timeout) /\ s.screen_timeout <= 0

\* CheckScreenTimeout, were the deadline left in place after lcd_off()
CheckScreenTimeout_KeepsDeadline(s) ==
    IF ScreenTimedOut(s) THEN lcd_off(s) ELSE s

CheckScreenTimeout(s) ==
    IF ScreenTimedOut(s) THEN lcd_off([s EXCEPT !.screen_timeout = Nil]) ELSE s

\* main lines 586-589
UpdateButtons(s, pins, delta) ==
    [s EXCEPT !.btn = [b \in Buttons |-> button_update(s.btn[b], b \in pins, delta)]]

\* main lines 592-595
HandleAll(s) ==
    handle_start_button(handle_down_button(handle_up_button(handle_mode_button(s))))

\* Countdown, were it to run as soon as the oven is Ready
Countdown_FromReady(s, delta) ==
    [s EXCEPT !.time_target = @ - delta * (IF s.heating_stage >= 1 THEN 1 ELSE 0)]

\* Countdown, were the remaining time left as it is
Countdown_Stalled(s, delta) == s

\* main line 606
Countdown(s, delta) ==
    [s EXCEPT !.time_target = @ - delta * (IF s.heating_stage = 2 THEN 1 ELSE 0)]

\* a press edge of any button, or the release that ends a short press of Up
QualifyingInput(s) ==
    \/ \E b \in Buttons : Pressed(s.btn[b])
    \/ Released(s.btn["up"]) /\ ~s.btn["up"].stale

\* the pin levels the environment may present in this tick, with budget the
\* number of presses of Up and Down it makes in all
PinChoices(allowed, budget) ==
    {P \in SUBSET allowed :
        /\ Cardinality(P) <= MaxPressed
        /\ \A b \in P : btn[b].press_time_ms < MaxHoldTicks * LOOP_DELAY_MS
        /\ adjust_presses
             + Cardinality({b \in P \cap {"up", "down"} : ~btn[b].cur}) <= budget}

\* the same, with Up held long enough for a long press; the other buttons,
\* whose press_time_ms no handler reads, are released in the tick after the
\* press
LongHoldChoices(allowed, budget) ==
    {P \in SUBSET allowed :
        /\ Cardinality(P) <= MaxPressed
        /\ \A b \in P : btn[b].press_time_ms <
               (IF b = "up" THEN MaxLongHoldTicks ELSE 1) * LOOP_DELAY_MS
        /\ adjust_presses
             + Cardinality({b \in P \cap {"up", "down"} : ~btn[b].cur}) <= budget}

\* the same, with Up held on past the long-press threshold
OverHoldChoices(allowed, budget) ==
    {P \in SUBSET allowed :
        /\ Cardinality(P) <= MaxPressed
        /\ \A b \in P : btn[b].press_time_ms <
               (IF b = "up" THEN MaxLongHoldTicks + MaxOverHoldTicks ELSE 1)
                  * LOOP_DELAY_MS
        /\ adjust_presses
             + Cardinality({b \in P \cap {"up", "down"} : ~btn[b].cur}) <= budget}

\* the bake temperature editor: one button at a time, tapped; Up and Down
\* are pressed in Bake mode only, as often as the user likes
EditorChoices ==
    {P \in SUBSET Buttons :
        /\ Cardinality(P) <= 1
        /\ \A b \in P : ~btn[b].cur
        /\ P \cap {"up", "down"} # {} => mode = 1
        /\ P \ {"start"} # {} => ~running
        /\ (P = {}) <=> (\E b \in Buttons : btn[b].cur)}

\* the button b is pressed in this tick: its pin is low and was not before
NewPress(P, b) == b \in P /\ ~btn[b].cur

\* the choices while the loop is followed: for h iterations
UpTo(h, choices) == IF ticks < h THEN choices ELSE {}

\* of the given choices, those of a patient user: buttons are pressed within
\* ActTicks iterations only, and held or released at any time
Patient(choices) ==
    {P \in choices : (\E b \in P : NewPress(P, b)) => ticks < ActTicks}

\* the time draw_lcd takes to write the idle screen: two cursor commands
\* and two strings
IdleDrawUs == (2 + 2 * MAX_CHARS) * 6 * DELAY_US

\* the state at the first loop_start: line 566 has armed the idle deadline
\* and line 568 has drawn the idle screen since
Init ==
    /\ pc = "poll"
    /\ mode = 0
    /\ setting_option = 0
    /\ running = FALSE
    /\ screen_timeout = make_timeout_time_ms(SCREEN_TIMEOUT) - IdleDrawUs
    /\ toast_time = 10
    /\ bake_time = 300
    /\ bake_temp = 82
    /\ heating_stage = 0
    /\ prev_heating_stage = 0
    /\ time_target = 0
    /\ temp_target = 0
    /\ current_temp = INITIAL_TEMP_Q
    /\ temp_age = Nil
    /\ relay = FALSE
    /\ buzzer = FALSE
    /\ beeping = FALSE
    /\ alarm = Nil
    /\ backlightEnabled = TRUE
    /\ last_display_seconds = -1
    /\ lcd_age = 0
    /\ btn = [b \in Buttons |-> button_init]
    /\ delta_ms = 0
    /\ cycle_delta_ms = 0
    /\ loop_us = 0
    /\ draw_calls = 1
    /\ drawn = [running |-> FALSE, mode |-> 0, detail |-> 10]
    /\ sync_pulses = 0
    /\ pulse_ms = Nil
    /\ beep_call = [pc |-> 0, ms |-> 0, synchronus |-> FALSE, interrupted |-> FALSE]
    /\ alarm_pool = << >>
    /\ lcd_off_calls = 0
    /\ idle_us = 0
    /\ toast_goal = Nil
    /\ toast_elapsed = 0
    /\ adjust_presses = 0
    /\ ticks = 0

\* lines 573-589: sleep, idle-timeout check, temperature, button sampling;
\* the alarm pool comes closer by the time of the sleep and of lcd_off().
\* The environment counts the iterations up to its horizon (from anew when
\* restarts is set and the display goes dark) and, when counted is set, the
\* Up and Down presses
Poll(sleeps, temps, choices, horizon, restarts, counted) ==
    /\ pc = "poll"
    /\ \E d \in sleeps, sample \in temps, pins \in choices :
          LET s0 == sleep_us([St EXCEPT !.loop_us = 0, !.draw_calls = 0,
                                        !.sync_pulses = 0, !.pulse_ms = Nil], d)
              delta == RoundMs(s0.loop_us)
              s1 == CheckScreenTimeout(s0)
              s2 == update_temp(s1, sample)
              s3 == UpdateButtons(s2, pins, delta)
          IN  /\ Commit(s3)
              /\ delta_ms' = delta
              /\ lcd_off_calls' = IF ScreenTimedOut(s0)
                                  THEN MIN(lcd_off_calls + 1, 2) ELSE lcd_off_calls
              /\ idle_us' = MIN(idle_us + s3.loop_us, SCREEN_TIMEOUT * 1000)
              /\ ticks' = IF is_nil_time(horizon) THEN ticks
                          ELSE IF restarts /\ ScreenTimedOut(s0) THEN 0
                          ELSE MIN(ticks + 1, horizon)
              /\ adjust_presses' = IF ~counted THEN adjust_presses
                    ELSE adjust_presses
                           + Cardinality({b \in pins \cap {"up", "down"} : ~btn[b].cur})
              /\ alarm_pool' = PoolElapse(alarm_pool, s3.loop_us)
    /\ pc' = "handle"
    /\ UNCHANGED <<cycle_delta_ms, toast_goal, toast_elapsed, beep_call>>

\* lines 592-595: the four handlers
HandleButtons ==
    /\ pc = "handle"
    /\ LET s == HandleAll(St)
           fresh == QualifyingInput(St) \/ running \/ s.running
       IN  /\ Commit(s)
           /\ idle_us' = IF fresh THEN 0
                         ELSE MIN(idle_us + s.loop_us - loop_us, SCREEN_TIMEOUT * 1000)
           /\ lcd_off_calls' = IF fresh THEN 0 ELSE lcd_off_calls
           /\ toast_goal' = IF ~running /\ s.running
                            THEN (IF s.mode = 0 THEN s.time_target ELSE Nil)
                            ELSE toast_goal
           /\ toast_elapsed' = IF ~running /\ s.running THEN 0 ELSE toast_elapsed
           /\ alarm_pool' = PoolOf(s.alarm)
    /\ pc' = "cycle"
    /\ UNCHANGED <<delta_ms, cycle_delta_ms, adjust_presses, ticks, beep_call>>

\* lines 597-607: the cycle, when running; line 603 measures the time since
\* loop_start right after process_cycle has returned
RunCycle ==
    /\ pc = "cycle"
    /\ IF running
       THEN LET s1 == process_cycle(lcd_maybe_update(St))
                d == RoundMs(s1.loop_us)
            IN  /\ Commit(Countdown(s1, d))
                /\ alarm_pool' = PoolOf(s1.alarm)
                /\ cycle_delta_ms' = d
                /\ toast_elapsed' = IF is_nil_time(toast_goal) THEN toast_elapsed
                                    ELSE toast_elapsed + d
                /\ idle_us' = 0
                /\ lcd_off_calls' = 0
       ELSE /\ Commit(St)
            /\ UNCHANGED <<cycle_delta_ms, toast_elapsed, lcd_off_calls, idle_us,
                           alarm_pool>>
    /\ pc' = "poll"
    /\ UNCHANGED <<delta_ms, toast_goal, adjust_presses, ticks, beep_call>>

(***************************************************************************)
(* Specifications                                                          *)
(***************************************************************************)
\* the sleep of line 574, in us
SleepUs == {LOOP_DELAY_MS * 1000}

\* sensor readings, in quarter degrees: 24.5, 27, 260 and 262.5 degrees
Temps == {98, 108, 1040, 1050}

\* Spec: the cook cycle in the first iterations after power-up. Mode and
\* Start are operated, the settings stay at their power-up values, the oven
\* takes every temperature of Temps.
CycleButtons == {"mode", "start"}

Next ==
    \/ Poll(SleepUs, Temps, UpTo(MaxCycleTicks, PinChoices(CycleButtons, MaxAdjust)),
            MaxCycleTicks, FALSE, TRUE)
    \/ HandleButtons
    \/ RunCycle

Spec == Init /\ [][Next]_vars

\* the loop of main moves on: from the sampling to the handlers, from the
\* handlers to the cycle, and from the cycle to the next iteration
Advance ==
    pc' = CASE pc = "poll" -> "handle" [] pc = "handle" -> "cycle" [] OTHER -> "poll"

\* SpecScreen: the screen power manager. A patient user operates all four
\* buttons after power-up and then leaves the oven alone; the oven stays cold
\* (0 degrees), so a Bake or Passthru cycle stays in Preheating.
ColdTemps == {0}

NextScreen ==
    \/ Poll(SleepUs, ColdTemps, Patient(PinChoices(Buttons, MaxAdjustOfFour)),
            ActTicks, FALSE, TRUE)
    \/ HandleButtons
    \/ RunCycle

SpecScreen == Init /\ [][NextScreen]_vars

\* SpecDark: a Bake cycle left running in the cold oven. A patient user
\* selects Bake (Mode), starts and stops cycles in Bake mode (Start) and
\* presses Up while a cycle runs; they come back to the oven when its
\* display goes dark.
ModeStartAndUp == {"mode", "start", "up"}

BakeUserChoices ==
    {P \in Patient(PinChoices(ModeStartAndUp, MaxAdjust)) :
        /\ NewPress(P, "mode") => mode = 0
        /\ NewPress(P, "start") => mode = 1
        /\ NewPress(P, "up") => running}

NextDark ==
    \/ Poll(SleepUs, ColdTemps, BakeUserChoices, ActTicks, TRUE, TRUE)
    \/ HandleButtons
    \/ RunCycle

SpecDark == Init /\ [][NextDark]_vars

\* SpecFine: the first iterations after power-up, with Start and Up
\* operated: Toast cycles are started and stopped and the toast time is
\* raised, while buzzer pulses and the display refresh interval span several
\* iterations.
\* sensor readings of SpecFine, in quarter degrees: 0 and 24.5 degrees
FineTemps == {0, 98}

StartAndUp == {"start", "up"}

NextFine ==
    \/ Poll(SleepUs, FineTemps, UpTo(MaxFineTicks, PinChoices(StartAndUp, MaxAdjust)),
            MaxFineTicks, FALSE, TRUE)
    \/ HandleButtons
    \/ RunCycle

SpecFine == Init /\ [][NextFine]_vars

\* SpecUp: Toast cycles run to completion. A patient user starts (and may
\* stop) a cycle with Start and presses Up when the countdown is about to
\* end; they come back to the oven when its display goes dark.
ToastUserChoices ==
    {P \in PinChoices(StartAndUp, MaxAdjust) :
        /\ NewPress(P, "start") => ticks < ActTicks
        /\ NewPress(P, "up") => (running /\ time_target <= LastMs)}

NextUp ==
    \/ Poll(SleepUs, ColdTemps, ToastUserChoices, ActTicks, TRUE, TRUE)
    \/ HandleButtons
    \/ RunCycle

SpecUp == Init /\ [][NextUp]_vars

\* SpecCook: Bake cycles cooked to the end in a warm oven (27 degrees, the
\* setpoint of the power-up bake temperature). A patient user selects Bake
\* (Mode), starts a cycle (Start), confirms the Ready prompt (Mode) and may
\* stop the cycle at once or when the countdown is about to end.
WarmTemps == {108}

CookUserChoices ==
    {P \in PinChoices(CycleButtons, MaxAdjust) :
        /\ NewPress(P, "mode") => (ticks < ActTicks /\ (mode = 0 \/ running))
        /\ NewPress(P, "start") =>
              /\ mode = 1
              /\ ticks < ActTicks \/ (running /\ time_target <= LastMs)}

NextCook ==
    \/ Poll(SleepUs, WarmTemps, CookUserChoices, ActTicks, FALSE, TRUE)
    \/ HandleButtons
    \/ RunCycle

SpecCook == Init /\ [][NextCook]_vars

\* the same, with the loop of main never stopping: while (true) has no exit
\* and every call in its body returns
SpecLive == SpecCook /\ WF_pc(Advance)

\* SpecHold: the settings editor with long presses, in the first iterations
\* after power-up. All four buttons are operated and Up may be held for
\* LONG_PRESS_MS of measured sleep time (ten iterations); the oven stays cold.
NextHold ==
    \/ Poll(SleepUs, ColdTemps,
            UpTo(MaxEditTicks, LongHoldChoices(Buttons, MaxAdjustOfFour)),
            MaxEditTicks, FALSE, TRUE)
    \/ HandleButtons
    \/ RunCycle

SpecHold == Init /\ [][NextHold]_vars

\* SpecLong: long holds of Up in the settings editor, in the first
\* iterations after power-up. Mode and Up are operated, and Up may be held on
\* for MaxOverHoldTicks iterations past the long-press threshold; no cycle is
\* started and the oven stays cold.
ModeAndUp == {"mode", "up"}

NextLong ==
    \/ Poll(SleepUs, ColdTemps,
            UpTo(MaxLongTicks, OverHoldChoices(ModeAndUp, MaxAdjust)),
            MaxLongTicks, FALSE, TRUE)
    \/ HandleButtons
    \/ RunCycle

SpecLong == Init /\ [][NextLong]_vars

\* SpecEditor: the bake temperature over its whole range. The user taps
\* one button after another without a pause: they select a mode, move the
\* bake temperature with Up and Down, start cycles and stop them with the
\* next tap; the oven stays cold.
NextEditor ==
    \/ Poll(SleepUs, ColdTemps, EditorChoices, Nil, FALSE, FALSE)
    \/ HandleButtons
    \/ RunCycle

SpecEditor == Init /\ [][NextEditor]_vars

(***************************************************************************)
(* beep() statement by statement, with the alarm interrupt                 *)
(*                                                                         *)
(* In the loop actions above beep() runs as one step and the alarm pool is *)
(* the single slot `alarm`. SpecBeep takes beep() apart: the loop of main  *)
(* runs with no button pressed, and in the handler and cycle part of its   *)
(* first iterations beep() is called and executed one statement at a time. *)
(* The alarm pool holds every alarm that add_alarm_in_ms has added, and    *)
(* time may pass between any two statements, in which a due alarm runs     *)
(* beep_callback to completion (an interrupt handler is not itself         *)
(* interrupted by the main loop). All clocks of the program move with that *)
(* time, as they do in the sleeps of the loop.                             *)
(* beep_call.pc: 0 outside beep(), 1 at the test of line 332, and 1 + i at *)
(* statement i of BeepBody; the arguments and the interrupted mark of a    *)
(* call are kept for as long as the call lasts.                            *)
(***************************************************************************)
\* the pulse lengths and kinds the program requests (lines 410, 500, 521, 541)
PulseRequests == {ACTION_BEEP_LENGTH, START_BEEP_LENGTH, COMPLETE_BEEP_LENGTH} \X BOOLEAN

\* beep() is called in this many iterations after power-up
MaxBeepTicks == 2
\* beep() is called, and time passes between its statements, while the
\* iteration has not lasted this long, in us
MaxBeepUs == 100000

\* no beep() call is under way
NoCall == [pc |-> 0, ms |-> 0, synchronus |-> FALSE, interrupted |-> FALSE]

\* the variables that neither beep() nor the passing of time changes
LoopVars == <<pc, mode, setting_option, running, toast_time, bake_time,
              bake_temp, heating_stage, prev_heating_stage, time_target, temp_target,
              current_temp, relay, backlightEnabled, last_display_seconds, btn,
              delta_ms, cycle_delta_ms, draw_calls, drawn, lcd_off_calls, toast_goal,
              toast_elapsed, adjust_presses, ticks>>

\* BeepBody, were the alarm added before the flag is set
BeepBody_AlarmBeforeFlag(synchronus) ==
    IF synchronus THEN <<"gpio_put_1", "sleep_ms", "gpio_put_0">>
    ELSE <<"gpio_put_1", "add_alarm_in_ms", "beeping_true">>

\* BeepBody, were the non-blocking branch to arm no alarm
BeepBody_NoAlarm(synchronus) ==
    IF synchronus THEN <<"gpio_put_1", "sleep_ms", "gpio_put_0">>
    ELSE <<"gpio_put_1", "beeping_true", "beeping_true">>

\* the statements of beep() after the test, lines 334-340
BeepBody(synchronus) ==
    IF synchronus THEN <<"gpio_put_1", "sleep_ms", "gpio_put_0">>
    ELSE <<"gpio_put_1", "beeping_true", "add_alarm_in_ms">>

\* d us pass for the clocks of the program and for the alarm pool; a due
\* alarm interrupts and runs beep_callback, lines 321-326
ClocksElapse(d) ==
    LET t == sleep_us(St, d)
    IN  /\ screen_timeout' = t.screen_timeout
        /\ temp_age' = t.temp_age
        /\ lcd_age' = t.lcd_age
        /\ loop_us' = t.loop_us
        /\ idle_us' = MIN(idle_us + d, SCREEN_TIMEOUT * 1000)
        /\ alarm_pool' = PoolElapse(alarm_pool, d)
        /\ alarm' = LatestAlarm(alarm_pool')
        /\ buzzer' = IF DueAlarms(alarm_pool, d) # {} THEN FALSE ELSE buzzer
        /\ beeping' = IF DueAlarms(alarm_pool, d) # {} THEN FALSE ELSE beeping

\* d us pass in the handler and cycle part of an iteration, while beep() is
\* at some statement or between two calls
TimePasses(d) ==
    /\ pc # "poll"
    /\ loop_us < MaxBeepUs
    /\ ClocksElapse(d)
    /\ beep_call' = [beep_call EXCEPT
                        !.interrupted = IF DueAlarms(alarm_pool, d) # {}
                                        THEN beep_call.pc # 0 ELSE @]
    /\ UNCHANGED <<sync_pulses, pulse_ms>>
    /\ UNCHANGED LoopVars

\* a handler or process_cycle calls beep(ms, synchronus), line 329
BeepEnter(ms, synchronus) ==
    /\ pc # "poll"
    /\ ticks <= MaxBeepTicks
    /\ loop_us < MaxBeepUs
    /\ beep_call.pc = 0
    /\ beep_call' = [pc |-> 1, ms |-> ms, synchronus |-> synchronus,
                     interrupted |-> FALSE]
    /\ UNCHANGED <<buzzer, beeping, alarm, alarm_pool, screen_timeout, temp_age,
                   lcd_age, loop_us, idle_us, sync_pulses, pulse_ms>>
    /\ UNCHANGED LoopVars

\* line 332: if (beeping) return;
BeepTest ==
    /\ beep_call.pc = 1
    /\ beep_call' = IF beeping THEN NoCall ELSE [beep_call EXCEPT !.pc = 2]
    /\ UNCHANGED <<buzzer, beeping, alarm, alarm_pool, screen_timeout, temp_age,
                   lcd_age, loop_us, idle_us, sync_pulses, pulse_ms>>
    /\ UNCHANGED LoopVars

\* the next statement of lines 334-340
BeepStatement ==
    /\ beep_call.pc >= 2
    /\ LET stmt == BeepBody(beep_call.synchronus)[beep_call.pc - 1]
           us == beep_call.ms * 1000
       IN  /\ CASE stmt = "gpio_put_1" ->
                     /\ buzzer' = TRUE
                     /\ UNCHANGED <<beeping, alarm, alarm_pool, screen_timeout,
                                    temp_age, lcd_age, loop_us, idle_us,
                                    sync_pulses, pulse_ms>>
                [] stmt = "sleep_ms" ->
                     /\ ClocksElapse(us)
                     /\ UNCHANGED <<sync_pulses, pulse_ms>>
                [] stmt = "gpio_put_0" ->
                     /\ buzzer' = FALSE
                     /\ sync_pulses' = sync_pulses + 1
                     /\ UNCHANGED <<beeping, alarm, alarm_pool, screen_timeout,
                                    temp_age, lcd_age, loop_us, idle_us, pulse_ms>>
                [] stmt = "beeping_true" ->
                     /\ beeping' = TRUE
                     /\ UNCHANGED <<buzzer, alarm, alarm_pool, screen_timeout,
                                    temp_age, lcd_age, loop_us, idle_us,
                                    sync_pulses, pulse_ms>>
                [] stmt = "add_alarm_in_ms" ->
                     /\ alarm_pool' = Append(alarm_pool, us)
                     /\ alarm' = us
                     /\ pulse_ms' = beep_call.ms
                     /\ UNCHANGED <<buzzer, beeping, screen_timeout, temp_age,
                                    lcd_age, loop_us, idle_us, sync_pulses>>
           /\ beep_call' = IF beep_call.pc = 4 THEN NoCall
                            ELSE [beep_call EXCEPT
                                     !.pc = @ + 1,
                                     !.interrupted = @ \/ (stmt = "sleep_ms" /\
                                                DueAlarms(alarm_pool, us) # {})]
    /\ UNCHANGED LoopVars

\* the time that passes between two statements, in us
BeepStepUs == {50000}

\* no button is pressed
NoPins == {{}}

NextBeep ==
    \/ beep_call.pc = 0 /\ Poll(SleepUs, ColdTemps, NoPins, MaxBeepTicks + 1, FALSE, FALSE)
    \/ beep_call.pc = 0 /\ HandleButtons
    \/ beep_call.pc = 0 /\ RunCycle
    \/ \E r \in PulseRequests : BeepEnter(r[1], r[2])
    \/ BeepTest
    \/ BeepStatement
    \/ \E d \in BeepStepUs : TimePasses(d)

SpecBeep == Init /\ [][NextBeep]_vars

\* the same, with the loop of main never stopping: every beep() call returns
\* and the loop goes on to its next iteration
SpecBeepLive == SpecBeep /\ WF_pc(Advance)

(***************************************************************************)
(* Claims                                                                  *)
(***************************************************************************)
\* the loop is between two ticks
TickEnd == pc = "poll"

\* C1: at the end of every tick in which running is false the relay is OFF.
C1_RelayOffWhenNotRunning == (TickEnd /\ ~running) => ~relay

\* C1 witness: a cycle has completed in a tick whose reading made the
\* thermostat command the relay ON
C1_Witness ==
    /\ TickEnd /\ ~running /\ ~relay
    /\ cycle_delta_ms > 0 /\ time_target <= 0
    /\ AtOrBelowBand(current_temp, temp_target)

\* C2: toast_time stays in [30,600], bake_time in [30,1200] and bake_temp in
\* [50,500], from the power-up defaults on.
C2_SettingsWithinBounds ==
    /\ toast_time \in TOAST_TIME_MIN..TOAST_TIME_MAX
    /\ bake_time \in BAKE_TIME_MIN..BAKE_TIME_MAX
    /\ bake_temp \in BAKE_TEMP_MIN..BAKE_TEMP_MAX

\* C3: while running the relay changes only in the cycle step, to ON only on a
\* reading at or below target - band and to OFF only on a reading at or above
\* target + band; a reading strictly inside the band leaves it as it was.
C3_Hysteresis ==
    [][(running' /\ relay' # relay) =>
          /\ pc = "cycle"
          /\ IF relay' THEN AtOrBelowBand(current_temp, temp_target)
                       ELSE AtOrAboveBand(current_temp, temp_target)]_vars

\* C3 witness: the relay is held ON over a tick whose reading is strictly
\* inside the band
C3_Witness ==
    /\ TickEnd /\ running /\ relay
    /\ ~AtOrBelowBand(current_temp, temp_target)
    /\ ~AtOrAboveBand(current_temp, temp_target)

\* C4: every cycle start sets heating_stage to Cooking for Toast and Passthru
\* and to Preheating for Bake.
C4_StartStage ==
    [][(~running /\ running') =>
          heating_stage' = (IF mode' = 1 THEN 0 ELSE 2)]_vars

\* C5: heating_stage never decreases, except in the step that starts a cycle.
C5_StageNeverRegresses ==
    [][heating_stage' >= heating_stage \/ (~running /\ running')]_vars

\* C5 witness: a Bake cycle has gone from Preheating through Ready to Cooking
C5_Witness == running /\ mode = 1 /\ heating_stage = 2

\* C6: apart from the load at cycle start, time_target changes only in the
\* cycle step of a running tick whose stage is Cooking, and then it decreases
\* by that tick's elapsed duration; with the stage Preheating or Ready it is
\* unchanged.
C6_CountdownOnlyWhileCooking ==
    [][IF pc = "cycle" /\ running /\ heating_stage' = 2
       THEN time_target' = time_target - cycle_delta_ms'
       ELSE time_target' = time_target \/ (~running /\ running')]_vars

\* C6 witness: a Bake cycle has waited in Preheating/Ready with the countdown
\* untouched and has then counted exactly one tick
C6_Witness ==
    /\ TickEnd /\ running /\ mode = 1 /\ heating_stage = 2
    /\ cycle_delta_ms > 0
    /\ time_target = bake_time * 1000 - cycle_delta_ms

\* the current Toast cycle has had T*1000 ms of elapsed tick time
ToastTimeElapsed == ~is_nil_time(toast_goal) /\ toast_elapsed >= toast_goal

\* the Toast cycle had already had its T*1000 ms before the last running tick
ToastTimeElapsedBeforeLastTick ==
    ~is_nil_time(toast_goal) /\ toast_elapsed - cycle_delta_ms >= toast_goal

\* C7 as stated: once a Toast cycle started with toast_time = T has had T*1000
\* ms of elapsed tick time, time_target <= 0, running is false and the relay
\* is OFF.
C7_CompleteAtElapsed ==
    (TickEnd /\ ToastTimeElapsed) => (time_target <= 0 /\ ~running /\ ~relay)

\* C7 amended: at that point time_target <= 0; running is false and the relay
\* OFF from the end of the next tick of the cycle on, whose process_cycle sees
\* time_target <= 0.
C7_CompleteOneTickLater ==
    /\ (TickEnd /\ ToastTimeElapsed) => time_target <= 0
    /\ (TickEnd /\ ToastTimeElapsedBeforeLastTick) => (~running /\ ~relay)

\* C7 witness: a Toast cycle has completed, in a tick whose reading made the
\* thermostat command the relay ON
C7_Witness ==
    /\ TickEnd /\ ToastTimeElapsedBeforeLastTick /\ ~running
    /\ AtOrBelowBand(current_temp, temp_target)

\* C8: while running, the idle deadline is none and the backlight is on.
C8_NoDeadlineWhileRunning ==
    (TickEnd /\ running) => (is_nil_time(screen_timeout) /\ backlightEnabled)

\* exactly one button has a press edge in this tick, and Up is not released
SolePress ==
    /\ Cardinality({b \in Buttons : Pressed(btn[b])}) = 1
    /\ ~Released(btn["up"])

\* C9: a press while the backlight is off and no cycle is running turns the
\* backlight on and refreshes the idle deadline, and changes neither mode,
\* setting_option, a setting nor running (stated for a press of one button
\* alone).
C9_WakePressOnlyWakes ==
    [][(pc = "handle" /\ ~backlightEnabled /\ ~running /\ SolePress) =>
          /\ backlightEnabled'
          /\ screen_timeout' = make_timeout_time_ms(SCREEN_TIMEOUT)
          /\ UNCHANGED <<mode, setting_option, toast_time, bake_time, bake_temp,
                         running>>]_vars

\* C10: after the idle duration without a qualifying input while not running,
\* the backlight is off, the deadline is none and lcd_off() has run exactly
\* once; this stays so until the next qualifying input.
C10_IdleTimeoutOnce ==
    /\ ~running => lcd_off_calls <= 1
    /\ (pc = "handle" /\ ~running /\ idle_us >= SCREEN_TIMEOUT * 1000) =>
          /\ is_nil_time(screen_timeout)
          /\ ~backlightEnabled
          /\ lcd_off_calls = 1

\* C10 witness: the screen has gone off after the user adjusted a setting and
\* then left the buttons alone for the idle duration
C10_Witness ==
    /\ pc = "handle" /\ ~running /\ idle_us >= SCREEN_TIMEOUT * 1000
    /\ ~backlightEnabled /\ lcd_off_calls = 1
    /\ toast_time # 10

\* the asynchronous pulse in progress runs on over e us: it still has e us less
\* to go, or it has ended at its deadline with the buzzer off; a pulse that is
\* active after these e us has begun no sooner than that deadline
PulseRunsOn(e) ==
    IF alarm > e
    THEN alarm' = alarm - e /\ buzzer' /\ beeping'
    ELSE \/ is_nil_time(alarm') /\ ~buzzer' /\ ~beeping'
         \/ /\ beeping' /\ buzzer' /\ ~is_nil_time(pulse_ms')
            /\ alarm' <= pulse_ms' * 1000
            /\ alarm' >= pulse_ms' * 1000 - (e - alarm)

\* C11: while a pulse is active a further pulse request changes nothing (no
\* second timer, the buzzer line untouched), so across every step of the loop
\* the active pulse just runs on to its original deadline, whatever the
\* handlers of that step request, and the next pulse begins after that
\* deadline: at most one pulse is active at any instant.
C11_RequestDuringPulseIsNoOp ==
    /\ [][(beeping /\ ~is_nil_time(alarm)) =>
             PulseRunsOn(loop_us' - (IF pc = "poll" THEN 0 ELSE loop_us))]_vars
    /\ [](beeping => \A r \in PulseRequests : beep(St, r[1], r[2]) = St)

\* C11 witness: Up and Start have been pressed in the same tick; the press of
\* Up began the 50 ms action pulse, the start pulse that Start requested was
\* dropped, and the cycle has started with the action pulse still to run
C11_Witness ==
    /\ pc = "cycle" /\ running /\ Pressed(btn["up"]) /\ Pressed(btn["start"])
    /\ beeping /\ buzzer /\ alarm = ACTION_BEEP_LENGTH * 1000
    /\ pulse_ms = ACTION_BEEP_LENGTH

\* beep() has turned the buzzer on and has not returned yet
BeepPastBuzzerOn == beep_call.pc >= 3

\* C12: with the alarm callback interrupting beep() between any two of its
\* statements, there is never more than one pending buzzer-off alarm, the flag
\* beeping is never set with no alarm pending (other than inside the beep()
\* call that is about to add it), and the buzzer is never ON with no alarm
\* pending outside a beep() call that has yet to turn it off or arm its alarm.
C12_InterruptSafe ==
    /\ Len(alarm_pool) <= 1
    /\ (beeping /\ alarm_pool = << >>) =>
           (beep_call.pc = 4 /\ ~beep_call.synchronus)
    /\ (buzzer /\ alarm_pool = << >>) => BeepPastBuzzerOn

\* C12 witness: a beep() call was made during a pulse, the callback ended that
\* pulse before the call tested the flag, and the call has turned the buzzer
\* on and set the flag for its own pulse, whose alarm it is about to add
C12_Witness ==
    /\ beep_call.pc = 4 /\ ~beep_call.synchronus /\ beep_call.interrupted
    /\ beeping /\ buzzer /\ alarm_pool = << >>

\* C13: whenever the cycle step finds a running cycle with time_target <= 0,
\* that step leaves the relay OFF and running false, has played all three
\* pulses of the completion sequence (buzzer on, then off, three times) and
\* leaves the idle deadline armed.
C13_CompletionPlaysSequence ==
    [][(pc = "cycle" /\ running /\ time_target <= 0) =>
          /\ ~relay' /\ ~running'
          /\ sync_pulses' = 3
          /\ ~is_nil_time(screen_timeout')]_vars

\* C13 witness: a Toast cycle has completed in a tick in which a press of Up
\* began the 50 ms action pulse; that pulse was over when the sequence began,
\* and all three of its pulses were played
C13_Witness ==
    /\ TickEnd /\ ~running /\ ~relay /\ time_target <= 0
    /\ Pressed(btn["up"]) /\ pulse_ms = ACTION_BEEP_LENGTH
    /\ sync_pulses = 3 /\ ~is_nil_time(screen_timeout)

\* C14: a Start press edge while running, in any heating stage, leaves the
\* relay OFF, running false and the idle deadline armed by the end of that
\* tick's handlers; it plays no synchronous (completion) pulse and requests
\* the 50 ms action pulse (which begins unless a pulse is active then), and
\* the rest of the tick leaves relay and running so.
C14_StartPressStops ==
    [][/\ (pc = "handle" /\ running /\ Pressed(btn["start"])) =>
            /\ ~relay' /\ ~running'
            /\ screen_timeout' = make_timeout_time_ms(SCREEN_TIMEOUT)
            /\ sync_pulses' = 0
            /\ pulse_ms' = IF beeping THEN pulse_ms ELSE ACTION_BEEP_LENGTH
       /\ (pc = "cycle" /\ ~running) =>
            (~relay' /\ ~running' /\ sync_pulses' = 0)]_vars

\* C14 witness: Start has stopped a Bake cycle in the Ready stage, with a
\* reading on which the thermostat commands the relay ON
C14_Witness ==
    /\ pc = "cycle" /\ Pressed(btn["start"]) /\ ~running /\ ~relay
    /\ mode = 1 /\ heating_stage = 1 /\ time_target > 0
    /\ AtOrBelowBand(current_temp, temp_target)
    /\ pulse_ms = ACTION_BEEP_LENGTH

\* one mode cycle: handle_mode_button on a Mode press edge
ModeCycled(s) == handle_mode_button(s)

\* C15: on a Mode press edge while awake and not running the mode goes Toast
\* to Bake to Passthru to Toast, three cycles bring back the original mode,
\* every cycle leaves setting_option = 0, and the tick's other handlers leave
\* the cycled mode in place.
C15_ModeCycleWraps ==
    /\ [](  (pc = "handle" /\ Pressed(btn["mode"]) /\ ~running
                 /\ ~is_nil_time(screen_timeout)) =>
               /\ mode \in 0..(NUM_MODES - 1)
               /\ ModeCycled(St).mode = (IF mode = 0 THEN 1 ELSE IF mode = 1 THEN 2 ELSE 0)
               /\ ModeCycled(St).setting_option = 0
               /\ ModeCycled(ModeCycled(St)).setting_option = 0
               /\ ModeCycled(ModeCycled(ModeCycled(St))).setting_option = 0
               /\ ModeCycled(ModeCycled(ModeCycled(St))).mode = mode)
    /\ [][(pc = "handle" /\ Pressed(btn["mode"]) /\ ~running
               /\ ~is_nil_time(screen_timeout)) =>
             mode' = ModeCycled(St).mode]_vars

\* C15 witness: Mode is pressed in Bake with the time setting selected (by a
\* long press of Up); the cycle goes on to Passthru and resets setting_option
C15_Witness ==
    /\ pc = "handle" /\ Pressed(btn["mode"]) /\ ~running
    /\ ~is_nil_time(screen_timeout)
    /\ mode = 1 /\ setting_option = 1
    /\ ModeCycled(St).mode = 2 /\ ModeCycled(St).setting_option = 0

\* C16: no step taken while running is true (whatever the buttons do: press,
\* release or hold of Mode, Up or Down) changes mode, setting_option,
\* toast_time, bake_time or bake_temp.
C16_SettingsFrozenWhileRunning ==
    [][running => UNCHANGED <<mode, setting_option, toast_time, bake_time,
                             bake_temp>>]_vars

\* C16 witness: the handlers have run with Up held for the long-press time in
\* a running Bake cycle, and the setting option is still the temperature
C16_Witness ==
    /\ pc = "cycle" /\ running /\ mode = 1 /\ setting_option = 0
    /\ btn["up"].cur /\ ~btn["up"].stale
    /\ btn["up"].press_time_ms >= LONG_PRESS_MS

\* the refresh decision of a running tick finds a redraw due
RedrawDue ==
    \/ DisplaySeconds(time_target) # last_display_seconds
    \/ lcd_age \div 1000 >= LCD_UPDATE_MS

\* C17: in every running tick the refresh decision redraws the display exactly
\* when the displayed seconds value round(time_target/1000) differs from the
\* one last rendered (so once per distinct value) or 200 ms have passed since
\* the last redraw (so at least once per refresh interval while the value is
\* unchanged), and not otherwise; the only other redraw of the cycle step is
\* the forced one of a completion.
C17_RedrawOncePerValueOrInterval ==
    [][(pc = "cycle" /\ running) =>
          /\ draw_calls' - draw_calls =
                 (IF RedrawDue THEN 1 ELSE 0) + (IF time_target <= 0 THEN 1 ELSE 0)
          /\ (RedrawDue /\ running') =>
                 last_display_seconds' = DisplaySeconds(time_target)]_vars

\* C17 witness: the countdown has just gone from 10 to 9 displayed seconds,
\* less than 200 ms after the last redraw, and the refresh decision redraws
C17_Witness ==
    /\ pc = "cycle" /\ running /\ lcd_age \div 1000 < LCD_UPDATE_MS
    /\ last_display_seconds = 10 /\ DisplaySeconds(time_target) = 9
    /\ lcd_maybe_update(St).draw_calls = draw_calls + 1

\* C17 witness of the interval: the displayed value is unchanged, 200 ms have
\* passed since the last redraw, and the refresh decision redraws
C17_WitnessInterval ==
    /\ pc = "cycle" /\ running /\ lcd_age \div 1000 >= LCD_UPDATE_MS
    /\ last_display_seconds = DisplaySeconds(time_target)
    /\ lcd_maybe_update(St).draw_calls = draw_calls + 1

\* C17 witness of the quiet tick: neither holds, and nothing is drawn
C17_WitnessQuiet ==
    /\ pc = "poll" /\ running /\ draw_calls = 0 /\ cycle_delta_ms > 0

\* C18: a mode cycle, a setting adjustment, a heating-stage transition, a
\* cycle start and a cycle stop each force a redraw in the tick in which they
\* occur: at the end of every tick the display shows the mode, the edited
\* setting, the run state and the heating stage as they then are.
C18_EventsRedrawInSameTick == TickEnd => drawn = Screen(St)

\* C19: the display-refresh decision is the last step of a tick, after the
\* stage and thermostat evaluation and the countdown, so it sees what the tick
\* produced: at the end of every running tick the seconds value last rendered
\* is the one of the tick's final time_target, and a redraw made by the tick
\* shows the tick's final stage.
C19_RefreshSeesTickResult ==
    [][(pc = "cycle" /\ running /\ running') =>
          /\ last_display_seconds' = DisplaySeconds(time_target')
          /\ (draw_calls' > draw_calls) => drawn' = Screen(St')]_vars

\* the sampled temperature has reached temp_target - hysteresis band
PreheatReached == current_temp >= temp_target * QUARTERS - TEMP_HYSTERESIS_Q

\* C20: in every running tick that begins in Preheating, if the sampled
\* temperature is at or above temp_target - hysteresis band the stage becomes
\* Ready in that tick and the 500 ms confirmation pulse is started (the last
\* alarm-timed pulse begun in the tick is the 500 ms one); below that
\* threshold the stage stays Preheating.
C20_PreheatToReady ==
    [][(pc = "cycle" /\ running /\ heating_stage = 0) =>
          IF PreheatReached
          THEN /\ prev_heating_stage' = 0 /\ heating_stage' >= 1
               /\ pulse_ms' = READY_BEEP_LENGTH
          ELSE heating_stage' = 0]_vars

\* C21: within a cycle the stage becomes Cooking only in the cycle step of a
\* tick with a Mode press edge (pressed now, not pressed in the previous
\* tick); a cycle step that begins in Ready without that edge leaves the stage
\* Ready, whatever the temperature, the time and the level of the Mode button.
C21_ReadyToCookingOnModeEdge ==
    [][/\ (running /\ running' /\ heating_stage # 2 /\ heating_stage' = 2) =>
            (pc = "cycle" /\ Pressed(btn["mode"]))
       /\ (pc = "cycle" /\ running /\ heating_stage = 1 /\ ~Pressed(btn["mode"])) =>
            heating_stage' = 1]_vars

\* C21 witness: a tick of a Bake cycle has ended in Ready with the Mode button
\* held down since before that tick
C21_Witness ==
    /\ TickEnd /\ running /\ mode = 1 /\ heating_stage = 1
    /\ btn["mode"].cur /\ btn["mode"].prev

\* the minimum inter-sample interval has elapsed at this tick's update_temp,
\* loop_us' us after the tick began (or no sample has been taken yet)
SampleDue ==
    is_nil_time(temp_age) \/ temp_age + loop_us' >= MIN_TEMP_REFRESH_US

\* C22: the sensor is sampled in a tick exactly when no sample has been taken
\* yet or at least 220 ms have passed since the last one; in every other tick,
\* and in every other step, current_temp and the time of the last sample stay
\* as they were (the time since the last sample only grows).
C22_SamplingRateLimited ==
    [][IF pc = "poll" /\ SampleDue
       THEN temp_age' = 0
       ELSE /\ current_temp' = current_temp
            /\ temp_age' >= temp_age
            /\ pc = "poll" => temp_age' > 0]_vars

\* C22 witness: a tick has reused the previous sample, 24.5 degrees, taken
\* less than 220 ms before
C22_Witness ==
    /\ pc = "handle" /\ current_temp = 98
    /\ temp_age > 0 /\ temp_age < MIN_TEMP_REFRESH_US

\* C23: the button update of a tick sets prev to the pressed value of the
\* tick before and, with delta_ms the duration main measured for the tick,
\* adds delta_ms to press_time_ms when the button is pressed and sets it to 0
\* when it is not; no other step changes prev, cur or press_time_ms.  So
\* press_time_ms is the sum of the measured durations over the current
\* unbroken run of pressed ticks, and 0 whenever the button is not pressed.
C23_ButtonUpdateInvariants ==
    /\ [][\A b \in Buttons :
            IF pc = "poll"
            THEN /\ btn'[b].prev = btn[b].cur
                 /\ btn'[b].press_time_ms =
                       IF btn'[b].cur THEN btn[b].press_time_ms + delta_ms' ELSE 0
            ELSE /\ btn'[b].prev = btn[b].prev
                 /\ btn'[b].cur = btn[b].cur
                 /\ btn'[b].press_time_ms = btn[b].press_time_ms]_vars
    /\ [](\A b \in Buttons : ~btn[b].cur => btn[b].press_time_ms = 0)

\* C23 witness: Up has been pressed for three ticks in a row (60 ms measured)
\* while Mode, pressed in the tick before, has just been released
C23_Witness ==
    /\ pc = "handle"
    /\ btn["up"].cur /\ btn["up"].prev /\ btn["up"].press_time_ms = 3 * LOOP_DELAY_MS
    /\ ~btn["mode"].cur /\ btn["mode"].prev /\ btn["mode"].press_time_ms = 0

\* the Up button has been held past the long-press threshold and that hold
\* has not been acted upon yet
LongPressDue ==
    ~btn["up"].stale /\ btn["up"].press_time_ms >= LONG_PRESS_MS

\* C24: setting_option is 0 or 1 and is 0 whenever the mode is not Bake.  It
\* changes only in the handlers of a tick that began not running: an Up long
\* press flips it, with the mode (as left by the Mode handler) being Bake,
\* and a mode change resets it to 0.
C24_SettingOptionDomain ==
    /\ [](setting_option \in {0, 1} /\ (mode # 1 => setting_option = 0))
    /\ [][setting_option' # setting_option =>
            /\ pc = "handle" /\ ~running
            /\ \/ /\ mode' = 1 /\ LongPressDue /\ btn'["up"].stale
                  /\ setting_option' = IF mode' = mode THEN 1 - setting_option ELSE 1
               \/ mode' # mode /\ setting_option' = 0]_vars

\* C24 witness: the tick's Up long press in Bake mode, not running, has set
\* the setting option to 1 (bake time)
C24_Witness ==
    /\ pc = "cycle" /\ mode = 1 /\ ~running /\ setting_option = 1
    /\ btn["up"].stale /\ btn["up"].press_time_ms = LONG_PRESS_MS

\* C25: in Bake mode and not running, the handlers of the tick in which an
\* unconsumed hold of Up has reached 200 ms flip setting_option and set the
\* stale flag; while the flag is set and the mode stays Bake the handlers
\* leave setting_option alone, and the flag stays set as long as Up was
\* pressed in the tick before, so a hold flips once however long it lasts
\* and the release that ends it changes neither bake_temp nor bake_time.  The
\* flag is cleared in the first tick after the release, and a release of Up
\* without the flag, awake and in Bake mode, moves the selected field up by
\* one step.
C25_LongPressOncePerHold ==
    [][/\ (pc = "handle" /\ mode = 1 /\ mode' = 1 /\ ~running /\ LongPressDue) =>
            (setting_option' = 1 - setting_option /\ btn'["up"].stale)
       /\ (pc = "handle" /\ mode = 1 /\ mode' = 1 /\ btn["up"].stale) =>
            (setting_option' = setting_option /\ bake_temp' = bake_temp
               /\ bake_time' = bake_time)
       /\ (pc = "poll" /\ btn["up"].stale) => (btn'["up"].stale <=> btn["up"].cur)
       /\ (pc = "poll" /\ ~btn["up"].cur) => ~btn'["up"].stale
       /\ (pc = "handle" /\ mode = 1 /\ mode' = 1 /\ ~running
              /\ Released(btn["up"]) /\ ~btn["up"].stale
              /\ ~is_nil_time(screen_timeout)) =>
            /\ setting_option' = setting_option
            /\ bake_temp' = IF setting_option = 0
                             THEN MIN(bake_temp + BAKE_TEMP_INC, BAKE_TEMP_MAX)
                             ELSE bake_temp
            /\ bake_time' = IF setting_option = 1
                             THEN MIN(bake_time + BAKE_TIME_INC, BAKE_TIME_MAX)
                             ELSE bake_time]_vars

\* C25 witness: after a long press of Up in Bake mode selected the bake time
\* and left the temperature at its default, a short press and release of Up
\* has added one step to the bake time
C25_Witness ==
    /\ pc = "cycle" /\ mode = 1 /\ ~running /\ setting_option = 1
    /\ ~btn["up"].cur /\ btn["up"].prev /\ ~btn["up"].stale
    /\ bake_temp = 82 /\ bake_time = 300 + BAKE_TIME_INC

\* C26: with the loop running on, every cycle that is in the Cooking stage
\* eventually stops running, whatever the buttons and the temperature do.
C26_CookingTerminates ==
    (running /\ heating_stage = 2) ~> ~running

\* C26 witness: a Bake cycle has counted its Cooking time down to zero and
\* the tick that found it so has stopped the cycle
C26_Witness ==
    /\ TickEnd /\ ~running /\ ~relay /\ mode = 1 /\ heating_stage = 2
    /\ time_target <= 0 /\ sync_pulses = 3

\* C27: at the end of every tick that leaves the oven not running, the
\* backlight is off exactly when no idle deadline is armed.
C27_BacklightMatchesDeadline ==
    (TickEnd /\ ~running) => (~backlightEnabled <=> is_nil_time(screen_timeout))

\* C28: whenever the buzzer is on, it is eventually off with the flag beeping
\* false, whatever pulses, blocking or not, are requested in the meantime.
C28_BuzzerEventuallyOff ==
    buzzer ~> (~buzzer /\ ~beeping)

\* C28 witness: an action pulse begun in this iteration has been ended by its
\* alarm, while a later beep() call was waiting at its test
C28_Witness ==
    /\ beep_call.pc = 1 /\ beep_call.interrupted /\ pulse_ms = ACTION_BEEP_LENGTH
    /\ ~buzzer /\ ~beeping /\ alarm_pool = << >>

\* C29: the handlers that start a cycle leave temp_target at 260 in Toast and
\* Passthru mode and, in Bake mode, at the integer t with
\* 9 t <= 5 (bake_temp - 32) < 9 (t + 1), the truncated Celsius value of the
\* bake temperature; bake_temp stays within [50, 500], so that t lies within
\* [10, 260] and the setpoint of a running cycle never exceeds 260.
C29_SetpointAtMost260 ==
    /\ [][(pc = "handle" /\ ~running /\ running') =>
            IF mode' = 1
            THEN /\ 9 * temp_target' <= 5 * (bake_temp' - 32)
                 /\ 5 * (bake_temp' - 32) < 9 * (temp_target' + 1)
                 /\ temp_target' >= 10
            ELSE temp_target' = 260]_vars
    /\ [](/\ bake_temp >= BAKE_TEMP_MIN /\ bake_temp <= BAKE_TEMP_MAX
          /\ running => temp_target <= 260)

\* C29 witness: a Bake cycle has been started at the highest bake
\* temperature, 500 F, and its setpoint is 260 C
C29_Witness ==
    /\ running /\ mode = 1 /\ bake_temp = BAKE_TEMP_MAX /\ temp_target = 260

====
